---- MODULE Spec2Model ----
(***************************************************************************)
(* Model of scripts/download_index_master.py: the XTS index master         *)
(* downloader.  main() resolves credentials (config file, environment,     *)
(* prompt), logs in, fetches the index list, and writes a CSV and a JSON   *)
(* master file.  Strings that the code takes apart (index names, URLs)     *)
(* are sequences of one-character strings; opaque values (keys, tokens)    *)
(* are atoms.                                                              *)
(***************************************************************************)
EXTENDS Integers, Sequences, FiniteSets, TLC

\* ---------------------------------------------------------------- bounds
MaxRuns == 2        \* how many times the script is started
MaxRecords == 2     \* longest index list the server returns
MaxNameLen == 5     \* longest raw name fed to the split rule
MaxCfgLines == 4    \* longest config file (in key = value lines)

\* ------------------------------------------------------- Python values
\* Every Python string is a sequence (of characters, of URL parts, or of one
\* opaque atom); "" is the empty sequence and None is a value of its own.
None == <<"<None>">>
Truthy(x) == x # None /\ x # <<>>

\* --------------------------------------------------------------- state
VARIABLES
    pc,             \* position of main(): config, env, prompt, check, login,
                    \* fetch, save_csv, save_json, finish, done
    runs,           \* number of times the script has been started
    now,            \* the wall clock (datetime.now())
    configFile,     \* ../configs/config.ini: [exists, readable, lines]
    environ,        \* os.environ: [api, secret, url]
    stdin,          \* what the operator types at the prompts: [api, secret, url]
    api_key, secret_key, base_url, source,  \* main()'s locals
    credsOk,        \* main() got past the credentials check in this run
    dl_base_url,    \* downloader.base_url
    token,          \* downloader.token
    indices,        \* main()'s indices (the list get_index_list returned)
    hasIndices,     \* FALSE while indices is None
    csvFile,        \* MasterFiles/nse_cm_index_master.csv: [exists, data]
    jsonFile,       \* MasterFiles/nse_cm_index_master.json: [exists, data]
    exitCode,       \* process exit status (-1 while running)
    loginRequests,  \* POST /auth/login requests sent in this run
    fetchRequests,  \* GET /instruments/indexlist requests sent in this run
    loginOutcome,   \* what the login request met
    fetchOutcome,   \* what the index-list request met
    loginKeys,      \* <<appKey, secretKey>> of the login payload sent
    csvStart, jsonStart,  \* the files as they were when this run started
    csvWritten, jsonWritten,  \* the write completed in this run
    interrupted,    \* KeyboardInterrupt was raised in this run
    nIn, nOut       \* a raw record and its normalization (split rule)

pipeVars == <<pc, runs, now, configFile, environ, stdin, api_key, secret_key,
              base_url, source, credsOk, dl_base_url, token, indices, hasIndices, csvFile,
              jsonFile, exitCode, loginRequests, fetchRequests, loginOutcome,
              fetchOutcome, loginKeys, csvStart, jsonStart, csvWritten,
              jsonWritten, interrupted>>
normVars == <<nIn, nOut>>
vars == <<pipeVars, normVars>>

\* ------------------------------------------------------------- helpers
RECURSIVE SeqsUpTo(_, _)
SeqsUpTo(S, n) ==
    IF n = 0 THEN {<<>>}
    ELSE LET shorter == SeqsUpTo(S, n - 1)
         IN shorter \cup {Append(s, x) : s \in {t \in shorter : Len(t) = n - 1}, x \in S}

RECURSIVE Flatten(_)
Flatten(ss) == IF ss = <<>> THEN <<>> ELSE Head(ss) \o Flatten(Tail(ss))

\* ------------------------------------------------ raw records, split rule
\* A raw record is a JSON object; name and exchangeInstrumentID may be absent.
Rec(hn, n, he, e) == [hasName |-> hn, name |-> n, hasEid |-> he, eid |-> e]

\* item.get("name", "")
GetName(item) == IF item.hasName THEN item.name ELSE <<>>

\* item.get("exchangeInstrumentID", "")
GetEid(item) == IF item.hasEid THEN item.eid ELSE <<>>

\* "_" in full_name
HasUnderscore(s) == \E i \in 1..Len(s) : s[i] = "_"

SplitAtFirst(s) == CHOOSE i \in 1..Len(s) : s[i] = "_" /\ \A j \in 1..(i-1) : s[j] # "_"

\* the position str.rsplit("_", 1) splits at
SplitPos(s) == CHOOSE i \in 1..Len(s) : s[i] = "_" /\ \A j \in (i+1)..Len(s) : s[j] # "_"

RSplitKeepSep(s) == <<SubSeq(s, 1, SplitPos(s)), SubSeq(s, SplitPos(s) + 1, Len(s))>>

\* full_name.rsplit("_", 1)
RSplit(s) == <<SubSeq(s, 1, SplitPos(s) - 1), SubSeq(s, SplitPos(s) + 1, Len(s))>>

\* the body of save_as_csv's loop up to the write: <<index_name, token>>
Normalize(item) ==
    LET full_name == GetName(item)
    IN IF HasUnderscore(full_name) THEN RSplit(full_name)
       ELSE <<full_name, GetEid(item)>>

\* --------------------------------------------------------- output format
Header == <<"id", ",", "index_name", ",", "token", ",", "created_at">>

\* datetime.now().strftime(...)[:-3]
Stamp(t) == "T" \o ToString(t)

RowStampPerRow(t, idx) == Stamp(t + idx - 1)

\* the timestamp of row idx: save_as_csv reads the clock once, before the loop
RowStamp(t, idx) == Stamp(t)

\* f"{idx},{index_name},{token},{timestamp}\n"
CsvLine(idx, item, t) ==
    LET nt == Normalize(item)
    IN <<ToString(idx), ",">> \o nt[1] \o <<",">> \o nt[2] \o <<",", RowStamp(t, idx)>>

\* everything save_as_csv writes, as a sequence of lines
CsvContent(list, t) == <<Header>> \o [i \in 1..Len(list) |-> CsvLine(i, list[i], t)]

\* one raw record as JSON text
JsonObj(item) ==
    <<"{">>
    \o (IF item.hasName THEN <<"name", ":">> \o item.name ELSE <<>>)
    \o (IF item.hasName /\ item.hasEid THEN <<",">> ELSE <<>>)
    \o (IF item.hasEid THEN <<"exchangeInstrumentID", ":">> \o item.eid ELSE <<>>)
    \o <<"}">>

\* json.dump(indices, f, indent=2), as a sequence of tokens
JsonDump(list) ==
    <<"[">>
    \o Flatten([i \in 1..Len(list) |->
                  (IF i > 1 THEN <<",">> ELSE <<>>) \o JsonObj(list[i])])
    \o <<"]">>

NoFile == [exists |-> FALSE, data |-> <<>>]
File(d) == [exists |-> TRUE, data |-> d]

\* ------------------------------------------------------- config parsing
\* A config line after strip(): comment is TRUE for a line without '=' or
\* starting with ';' or '#'; otherwise key and value are the stripped halves.
CfgLine(k, v) == [comment |-> FALSE, key |-> k, value |-> v]
CommentLine == [comment |-> TRUE, key |-> "", value |-> <<>>]

NoConfig == [exists |-> FALSE, readable |-> FALSE, lines |-> <<>>]
BadConfig == [exists |-> TRUE, readable |-> FALSE, lines |-> <<>>]
Config(ls) == [exists |-> TRUE, readable |-> TRUE, lines |-> ls]

\* main()'s locals before the config file is read
Locals0 == [api |-> None, secret |-> None, url |-> None, source |-> <<"TWSAPI">>]

ParseLineAnyUrl(st, line) ==
    IF line.comment THEN st
    ELSE IF line.key = "marketdata_appkey" THEN [st EXCEPT !.api = line.value]
    ELSE IF line.key = "marketdata_secretkey" THEN [st EXCEPT !.secret = line.value]
    ELSE IF line.key = "source" THEN [st EXCEPT !.source = line.value]
    ELSE IF line.key = "mdurl" THEN [st EXCEPT !.url = line.value]
    ELSE IF line.key = "url" THEN [st EXCEPT !.url = line.value]
    ELSE st

\* one iteration of the parser loop
ParseLine(st, line) ==
    IF line.comment THEN st
    ELSE IF line.key = "marketdata_appkey" THEN [st EXCEPT !.api = line.value]
    ELSE IF line.key = "marketdata_secretkey" THEN [st EXCEPT !.secret = line.value]
    ELSE IF line.key = "source" THEN [st EXCEPT !.source = line.value]
    ELSE IF line.key = "mdurl" THEN [st EXCEPT !.url = line.value]
    ELSE IF line.key = "url" /\ ~Truthy(st.url) THEN [st EXCEPT !.url = line.value]
    ELSE st

RECURSIVE ParseLines(_, _)
ParseLines(st, ls) ==
    IF ls = <<>> THEN st ELSE ParseLines(ParseLine(st, Head(ls)), Tail(ls))

\* the config block of main(): the locals after it
ParseConfig(cf) ==
    IF cf.exists /\ cf.readable THEN ParseLines(Locals0, cf.lines) ELSE Locals0

\* ------------------------------------------------------------ base URL
\* A URL is the sequence of its '/'-separated parts; a trailing '/' is a
\* trailing empty part.
DefaultUrl == <<"mtrade.arhamshare.com">>

RECURSIVE RStripSlash(_)
RStripSlash(u) ==
    IF u # <<>> /\ u[Len(u)] = "" THEN RStripSlash(SubSeq(u, 1, Len(u) - 1)) ELSE u

EndsWith(u, part) == u # <<>> /\ u[Len(u)] = part

\* XTSIndexDownloader.__init__: self.base_url
InitBaseUrl(url) ==
    LET b0 == IF Truthy(url) THEN url ELSE DefaultUrl
        b1 == IF Len(b0) > 1 /\ EndsWith(b0, "apimarketdata")
              THEN SubSeq(b0, 1, Len(b0) - 1) ELSE b0
        b2 == RStripSlash(b1)
    IN IF EndsWith(b2, "marketdata") THEN b2 ELSE Append(b2, "marketdata")

\* -------------------------------------------------------------- inputs
CfgLineSet ==
    { CfgLine("marketdata_appkey", <<"cK">>),
      CfgLine("marketdata_secretkey", <<"cS">>),
      CfgLine("mdurl", <<"m", "apimarketdata">>),
      CfgLine("url", <<"u", "">>) }

AllConfigs == {NoConfig, BadConfig} \cup {Config(ls) : ls \in SeqsUpTo(CfgLineSet, MaxCfgLines)}

AllEnvs == [api : {None, <<"eK">>}, secret : {None, <<"eS">>}, url : {None, <<"e", "marketdata">>}]

\* eof: stdin is closed, input() raises EOFError
ClosedStdin == [eof |-> TRUE, api |-> <<>>, secret |-> <<>>, url |-> <<>>]
AllStdins ==
    {ClosedStdin} \cup
    [eof : {FALSE}, api : {<<>>, <<"pK">>}, secret : {<<>>, <<"pS">>}, url : {<<>>, <<"p">>}]

\* the inputs of the runs that go through the whole pipeline
PipeConfigs ==
    { NoConfig,
      Config(<<CommentLine, CfgLine("source", <<"WEBAPI">>), CfgLine("marketdata_appkey", <<"cK">>)>>),
      Config(<<CfgLine("marketdata_appkey", <<"cK">>), CfgLine("marketdata_secretkey", <<"cS">>),
               CfgLine("url", <<"u", "">>)>>) }
PipeEnvs == {e \in AllEnvs : (e.api = None) = (e.secret = None) /\ (e.api = None) = (e.url = None)}
PipeStdins == {ClosedStdin} \cup {i \in AllStdins : (i.api = <<>>) = (i.secret = <<>>) /\ i.url = <<>>}

\* what the server may return in `result`
ServerRecords ==
    { Rec(TRUE, <<"A", "_", "B", "_", "3">>, FALSE, <<>>),
      Rec(FALSE, <<>>, TRUE, <<"1">>) }
ServerLists == SeqsUpTo(ServerRecords, MaxRecords)

AuthTokens == {<<"tok">>, <<>>, None}

\* how a request can fail: HTTPError, URLError (timeout, connection), a body
\* that is not JSON, a JSON body whose type is not "success"
RequestFailures == {"http_error", "url_error", "bad_json", "not_success"}

OldCsv == File(<<<<"o", "l", "d">>>>)
OldJson == File(<<"[", "{", "}", "]">>)

\* the raw records the split rule is exercised on
NameAlphabet == {"a", "b", "_"}
NormInputs ==
    {Rec(TRUE, n, he, IF he THEN <<"7">> ELSE <<>>) : n \in SeqsUpTo(NameAlphabet, MaxNameLen), he \in BOOLEAN}
    \cup {Rec(FALSE, <<>>, he, IF he THEN <<"7">> ELSE <<>>) : he \in BOOLEAN}

\* ---------------------------------------------------------------- Init
\* the state of a freshly started script, given its surroundings
StartRun(cf, env, inp) ==
    /\ pc' = "config"
    /\ configFile' = cf /\ environ' = env /\ stdin' = inp
    /\ api_key' = None /\ secret_key' = None /\ base_url' = None
    /\ source' = <<"TWSAPI">>
    /\ credsOk' = FALSE
    /\ dl_base_url' = None /\ token' = None
    /\ indices' = <<>> /\ hasIndices' = FALSE
    /\ exitCode' = -1
    /\ loginRequests' = 0 /\ fetchRequests' = 0
    /\ loginOutcome' = "none" /\ fetchOutcome' = "none"
    /\ loginKeys' = <<>>
    /\ csvWritten' = FALSE /\ jsonWritten' = FALSE
    /\ interrupted' = FALSE

InitRun(cfs, envs, inps, olds) ==
    /\ pc = "config"
    /\ runs = 1 /\ now = 1
    /\ configFile \in cfs /\ environ \in envs /\ stdin \in inps
    /\ api_key = None /\ secret_key = None /\ base_url = None
    /\ source = <<"TWSAPI">>
    /\ credsOk = FALSE
    /\ dl_base_url = None /\ token = None
    /\ indices = <<>> /\ hasIndices = FALSE
    /\ \E old \in olds :
         /\ csvFile = (IF old THEN OldCsv ELSE NoFile)
         /\ jsonFile = (IF old THEN OldJson ELSE NoFile)
         /\ csvStart = csvFile /\ jsonStart = jsonFile
    /\ exitCode = -1
    /\ loginRequests = 0 /\ fetchRequests = 0
    /\ loginOutcome = "none" /\ fetchOutcome = "none"
    /\ loginKeys = <<>>
    /\ csvWritten = FALSE /\ jsonWritten = FALSE
    /\ interrupted = FALSE

NormIdle == nIn = Rec(FALSE, <<>>, FALSE, <<>>) /\ nOut = <<>>

Init == InitRun(PipeConfigs, PipeEnvs, PipeStdins, BOOLEAN) /\ NormIdle

\* ------------------------------------------------------------- actions
inputVars == <<configFile, environ, stdin>>
localVars == <<api_key, secret_key, base_url, source>>
netVars == <<loginRequests, fetchRequests, loginOutcome, fetchOutcome, loginKeys>>
fileVars == <<csvFile, jsonFile, csvWritten, jsonWritten>>
startVars == <<runs, now, csvStart, jsonStart>>

ExitZero(code) == pc' = "done" /\ exitCode' = 0

\* sys.exit(code), or an exception reaching the __main__ guard (code 1)
Exit(code) == pc' = "done" /\ exitCode' = code

\* main(), the config file block
LoadConfig ==
    /\ pc = "config"
    /\ LET st == ParseConfig(configFile)
       IN /\ api_key' = st.api
          /\ secret_key' = st.secret
          /\ base_url' = st.url
          /\ source' = st.source
    /\ pc' = "env"
    /\ UNCHANGED <<inputVars, startVars, netVars, fileVars, normVars, credsOk,
                   dl_base_url, token, indices, hasIndices, exitCode, interrupted>>

ReadEnvMerge ==
    /\ pc = "env"
    /\ api_key' = (IF Truthy(api_key) THEN api_key ELSE environ.api)
    /\ secret_key' = (IF Truthy(secret_key) THEN secret_key ELSE environ.secret)
    /\ base_url' = (IF Truthy(base_url) THEN base_url ELSE environ.url)
    /\ pc' = "prompt"
    /\ UNCHANGED <<inputVars, startVars, netVars, fileVars, normVars, credsOk, source,
                   dl_base_url, token, indices, hasIndices, exitCode, interrupted>>

\* main(), "Option 2: Environment variables"
ReadEnv ==
    /\ pc = "env"
    /\ IF ~Truthy(api_key)
       THEN /\ api_key' = environ.api
            /\ secret_key' = environ.secret
            /\ base_url' = environ.url
       ELSE UNCHANGED <<api_key, secret_key, base_url>>
    /\ pc' = "prompt"
    /\ UNCHANGED <<inputVars, startVars, netVars, fileVars, normVars, credsOk, source,
                   dl_base_url, token, indices, hasIndices, exitCode, interrupted>>

\* main(), "Option 3: Prompt user"; input() raises EOFError on a closed stdin
PromptUser ==
    /\ pc = "prompt"
    /\ IF Truthy(api_key)
       THEN /\ pc' = "check"
            /\ UNCHANGED <<api_key, secret_key, base_url, exitCode>>
       ELSE IF stdin.eof
       THEN /\ Exit(1)
            /\ UNCHANGED <<api_key, secret_key, base_url>>
       ELSE /\ api_key' = stdin.api
            /\ secret_key' = stdin.secret
            /\ base_url' = (IF stdin.url = <<>> THEN None ELSE stdin.url)
            /\ pc' = "check"
            /\ UNCHANGED exitCode
    /\ UNCHANGED <<inputVars, startVars, netVars, fileVars, normVars, credsOk, source,
                   dl_base_url, token, indices, hasIndices, interrupted>>

CredsMissingApiOnly(a, k) == ~Truthy(a)

\* not api_key or not secret_key
CredsMissing(a, k) == ~Truthy(a) \/ ~Truthy(k)

\* main(), the credentials check and the construction of the downloader
CheckCreds ==
    /\ pc = "check"
    /\ IF CredsMissing(api_key, secret_key)
       THEN /\ Exit(1)
            /\ UNCHANGED <<credsOk, dl_base_url, token>>
       ELSE /\ credsOk' = TRUE
            /\ dl_base_url' = InitBaseUrl(base_url)
            /\ token' = None
            /\ pc' = "login"
            /\ UNCHANGED exitCode
    /\ UNCHANGED <<inputVars, startVars, netVars, fileVars, normVars, localVars,
                   indices, hasIndices, interrupted>>

LoginRetries(outcome) == IF outcome = "ok" THEN 0 ELSE 1

\* requests login() sends again after a request that ended in outcome
LoginResend(outcome) == 0

\* downloader.login() and main()'s test of its result
Login ==
    /\ pc = "login"
    /\ loginKeys' = <<api_key, secret_key>>
    /\ \E outcome \in RequestFailures \cup {"no_token", "ok"} :
         /\ loginOutcome' = outcome
         /\ loginRequests' = loginRequests + 1 + LoginResend(outcome)
         /\ IF outcome = "ok"
            THEN /\ \E t \in AuthTokens : token' = t
                 /\ pc' = "fetch"
                 /\ UNCHANGED exitCode
            ELSE /\ Exit(1)
                 /\ UNCHANGED token
    /\ UNCHANGED <<inputVars, startVars, fileVars, normVars, localVars, credsOk,
                   dl_base_url, indices, hasIndices, interrupted,
                   fetchRequests, fetchOutcome>>

AlwaysLoggedIn(t) == TRUE

\* get_index_list's guard: a token is held
LoggedIn(t) == Truthy(t)

NoIndicesNever(has, list) == FALSE

\* main()'s `not indices`: get_index_list returned None or an empty list
NoIndices(has, list) == ~has \/ list = <<>>

\* downloader.get_index_list(1) and main()'s test of its result
Fetch ==
    /\ pc = "fetch"
    /\ IF ~LoggedIn(token)
       THEN /\ fetchOutcome' = "not_logged_in"
            /\ UNCHANGED <<fetchRequests, indices, hasIndices>>
       ELSE /\ fetchRequests' = fetchRequests + 1
            /\ \E outcome \in RequestFailures \cup {"ok_absent", "ok"} :
                 /\ fetchOutcome' = outcome
                 /\ IF outcome \in RequestFailures
                    THEN UNCHANGED <<indices, hasIndices>>
                    ELSE /\ hasIndices' = TRUE
                         /\ \E list \in ServerLists :
                              /\ outcome = "ok_absent" => list = <<>>
                              /\ indices' = list
    /\ IF NoIndices(hasIndices', indices')
       THEN Exit(1)
       ELSE pc' = "save_csv" /\ UNCHANGED exitCode
    /\ UNCHANGED <<inputVars, startVars, fileVars, normVars, localVars, credsOk,
                   dl_base_url, token, interrupted,
                   loginRequests, loginOutcome, loginKeys>>

AppendWrite(old, d) == File(old.data \o d)

\* open(output_file, 'w') followed by the writes of d
OverWrite(old, d) == File(d)

\* downloader.save_as_csv(indices, csv_output); a failing makedirs or open
\* leaves the file alone, a failing write leaves the file open() truncated
SaveCsv ==
    /\ pc = "save_csv"
    /\ LET content == CsvContent(indices, now)
       IN \/ /\ csvFile' = OverWrite(csvFile, content)
             /\ csvWritten' = TRUE
             /\ pc' = "save_json"
             /\ UNCHANGED exitCode
          \/ /\ \/ UNCHANGED csvFile
                \/ csvFile' = OverWrite(csvFile, <<>>)
             /\ Exit(1)
             /\ UNCHANGED csvWritten
    /\ UNCHANGED <<inputVars, startVars, netVars, normVars, localVars, credsOk,
                   dl_base_url, token, indices, hasIndices, interrupted,
                   jsonFile, jsonWritten>>

\* downloader.save_raw_json(indices, json_output)
SaveJson ==
    /\ pc = "save_json"
    /\ LET content == JsonDump(indices)
       IN \/ /\ jsonFile' = OverWrite(jsonFile, content)
             /\ jsonWritten' = TRUE
             /\ pc' = "finish"
             /\ UNCHANGED exitCode
          \/ /\ \/ UNCHANGED jsonFile
                \/ jsonFile' = OverWrite(jsonFile, <<>>)
             /\ Exit(1)
             /\ UNCHANGED jsonWritten
    /\ UNCHANGED <<inputVars, startVars, netVars, normVars, localVars, credsOk,
                   dl_base_url, token, indices, hasIndices, interrupted,
                   csvFile, csvWritten>>

\* main(), the closing messages; main() returns and the process exits with 0
Finish ==
    /\ pc = "finish"
    /\ Exit(0)
    /\ UNCHANGED <<inputVars, startVars, netVars, fileVars, normVars, localVars, credsOk,
                   dl_base_url, token, indices, hasIndices, interrupted>>

\* KeyboardInterrupt anywhere in main(): the __main__ guard exits with 1
Interrupt ==
    /\ pc # "done"
    /\ interrupted' = TRUE
    /\ Exit(1)
    /\ UNCHANGED <<inputVars, startVars, netVars, fileVars, normVars, localVars, credsOk,
                   dl_base_url, token, indices, hasIndices>>

\* the operator starts the script again; the output files stay on disk
Rerun ==
    /\ pc = "done"
    /\ runs < MaxRuns
    /\ runs' = runs + 1
    /\ now' = now + 1
    /\ csvStart' = csvFile /\ jsonStart' = jsonFile
    /\ \E cf \in PipeConfigs, env \in PipeEnvs, inp \in PipeStdins : StartRun(cf, env, inp)
    /\ UNCHANGED <<csvFile, jsonFile, normVars>>

Next ==
    \/ LoadConfig \/ ReadEnv \/ PromptUser \/ CheckCreds
    \/ Login \/ Fetch \/ SaveCsv \/ SaveJson \/ Finish
    \/ Interrupt \/ Rerun

Spec == Init /\ [][Next]_vars

\* The credential stage on its own, over every combination of what the
\* config file, the environment and the operator supply, up to the login.
InitCred == InitRun(AllConfigs, AllEnvs, AllStdins, {FALSE}) /\ NormIdle

NextCred == LoadConfig \/ ReadEnv \/ PromptUser \/ CheckCreds \/ Login \/ Interrupt

SpecCred == InitCred /\ [][NextCred]_vars

\* The split rule on its own, over every raw record of NormInputs.
InitNorm ==
    /\ InitRun({NoConfig}, {[api |-> None, secret |-> None, url |-> None]}, {ClosedStdin}, {FALSE})
    /\ nIn \in NormInputs
    /\ nOut = <<>>

\* one record goes through the body of save_as_csv's loop
NormStep ==
    /\ nOut = <<>>
    /\ nOut' = Normalize(nIn)
    /\ UNCHANGED <<nIn, pipeVars>>

NextNorm == NormStep

SpecNorm == InitNorm /\ [][NextNorm]_vars

\* ---------------------------------------------------------- properties
TypeOK ==
    /\ pc \in {"config", "env", "prompt", "check", "login", "fetch", "save_csv",
               "save_json", "finish", "done"}
    /\ exitCode \in {-1, 0, 1}
    /\ (pc = "done") = (exitCode # -1)

LoginFailed == loginOutcome \notin {"none", "ok"}
FetchFailed == fetchOutcome \in RequestFailures
FetchOk == fetchOutcome \in {"ok", "ok_absent"}

\* C1: a failed login (type other than "success", or any other failure) ends
\* the run with no index-list request sent, and an index-list request is only
\* ever sent after a successful login, while a token is held.
C1_NoFetchWithoutToken ==
    /\ LoginFailed => pc = "done" /\ exitCode = 1 /\ fetchRequests = 0
    /\ fetchRequests > 0 => loginOutcome = "ok" /\ Truthy(token)
    /\ fetchOutcome = "not_logged_in" => ~Truthy(token) /\ fetchRequests = 0

C1_Witness ==
    pc = "done" /\ loginOutcome = "not_success" /\ ~interrupted /\ fetchRequests = 0

\* C2: a login request carries a non-empty api_key and a non-empty secret_key;
\* a run whose api_key or secret_key is unset or empty after the three sources
\* ends with status 1 and sends no login request.
C2_LoginNeedsBothKeys ==
    /\ loginRequests > 0 => Truthy(loginKeys[1]) /\ Truthy(loginKeys[2])
    /\ (pc \notin {"config", "env", "prompt", "check"}
          /\ (~Truthy(api_key) \/ ~Truthy(secret_key)))
         => pc = "done" /\ exitCode = 1 /\ loginRequests = 0

C2_Witness ==
    /\ pc = "done" /\ ~interrupted /\ exitCode = 1 /\ loginRequests = 0
    /\ Truthy(api_key) /\ ~Truthy(secret_key)

\* C3 (as claimed): after a successful login, a success response whose result
\* list is empty or absent ends in a CSV file with only the header line and a
\* JSON file containing [].
C3_EmptyResultWritesFiles ==
    (pc = "done" /\ ~interrupted /\ loginOutcome = "ok" /\ FetchOk /\ indices = <<>>)
      => /\ csvFile = File(<<Header>>)
         /\ jsonFile = File(<<"[", "]">>)

\* what each source supplies
CfgSupplied == <<ParseConfig(configFile).api, ParseConfig(configFile).secret>>
EnvSupplied == <<environ.api, environ.secret>>
PromptSupplied == IF stdin.eof THEN <<None, None>> ELSE <<stdin.api, stdin.secret>>
Full(pair) == Truthy(pair[1]) /\ Truthy(pair[2])
SomeSourceFull == Full(CfgSupplied) \/ Full(EnvSupplied) \/ Full(PromptSupplied)
FirstFullPair ==
    IF Full(CfgSupplied) THEN CfgSupplied
    ELSE IF Full(EnvSupplied) THEN EnvSupplied
    ELSE PromptSupplied

\* C4 (as claimed): whenever some source supplies both api_key and secret_key,
\* the run gets past the credentials check and logs in with the pair of the
\* highest-priority source that supplies both.
C4_FirstFullSourceWins ==
    (pc \notin {"config", "env", "prompt", "check"} /\ ~interrupted /\ SomeSourceFull)
      => /\ credsOk
         /\ <<api_key, secret_key>> = FirstFullPair
         /\ loginRequests > 0 => loginKeys = FirstFullPair

\* C5: a finished run has status 0 exactly when it was not interrupted, the
\* credentials were resolved, the login and the fetch succeeded and both files
\* were written; every other finished run has status 1.
C5_ExitCode ==
    pc = "done" =>
      /\ exitCode \in {0, 1}
      /\ (exitCode = 0) =
           (/\ ~interrupted /\ credsOk /\ loginOutcome = "ok" /\ FetchOk
            /\ csvWritten /\ jsonWritten)

C5_Witness ==
    pc = "done" /\ exitCode = 0 /\ csvWritten /\ jsonWritten /\ runs = 2

\* C6: for a name with a "_" the token holds no "_" and index_name, "_", token
\* spell the name (the split is at the last "_"); for a name without "_" the
\* index_name is the name and the token is exchangeInstrumentID, or "" if absent.
C6_SplitRule ==
    nOut # <<>> =>
      LET name == IF nIn.hasName THEN nIn.name ELSE <<>>
      IN /\ Len(nOut) = 2
         /\ IF \E i \in 1..Len(name) : name[i] = "_"
            THEN /\ \A i \in 1..Len(nOut[2]) : nOut[2][i] # "_"
                 /\ nOut[1] \o <<"_">> \o nOut[2] = name
            ELSE /\ nOut[1] = name
                 /\ nOut[2] = (IF nIn.hasEid THEN nIn.eid ELSE <<>>)
         /\ name = <<"a", "_", "b", "_", "a">> => nOut = << <<"a", "_", "b">>, <<"a">> >>

C6_Witness == nOut # <<>> /\ nIn.hasName /\ nIn.name = <<"a", "_", "b", "_", "a">>

StripStamps(data) ==
    [i \in 1..Len(data) |->
        IF i = 1 THEN data[i] ELSE SubSeq(data[i], 1, Len(data[i]) - 1)]

\* C7: the CSV written for n records is the header followed by n rows in input
\* order: row i starts with id i, carries the index_name and token of record i,
\* and ends with the same created_at as every other row.
C7_OneRowPerRecord ==
    csvWritten =>
      LET d == csvFile.data
      IN /\ csvFile.exists
         /\ Len(d) = 1 + Len(indices)
         /\ d[1] = Header
         /\ \A i \in 1..Len(indices) :
              LET row == d[i + 1]
                  nt == Normalize(indices[i])
              IN /\ row[1] = ToString(i)
                 /\ row[Len(row)] = d[2][Len(d[2])]
                 /\ SubSeq(row, 1, Len(row) - 1)
                      = <<ToString(i), ",">> \o nt[1] \o <<",">> \o nt[2] \o <<",">>

C7_Witness ==
    /\ csvWritten /\ Len(indices) = 2
    /\ ~indices[1].hasName /\ indices[2].hasName

PrevRunSameList ==
    /\ runs > 1
    /\ jsonStart = File(JsonDump(indices))
    /\ \E t \in 1..(now - 1) : csvStart = File(CsvContent(indices, t))

\* C8: once both writes of a run are done the files hold exactly what this run
\* wrote, whatever they held before; when the previous run wrote the same list
\* the JSON file is unchanged and the CSV differs at most in created_at.
C8_OverwriteNotAppend ==
    (csvWritten /\ jsonWritten) =>
      /\ csvFile = File(CsvContent(indices, now))
      /\ jsonFile = File(JsonDump(indices))
      /\ PrevRunSameList =>
           /\ jsonFile = jsonStart
           /\ StripStamps(csvFile.data) = StripStamps(csvStart.data)

C8_Witness == csvWritten /\ jsonWritten /\ PrevRunSameList /\ csvFile # csvStart

\* C9: for a name with a "_", index_name, "_" and token joined give the name.
C9_RoundTrip ==
    (nOut # <<>> /\ HasUnderscore(GetName(nIn)))
      => nOut[1] \o <<"_">> \o nOut[2] = GetName(nIn)

C9_Witness == nOut # <<>> /\ nIn.hasName /\ nIn.name = <<"_", "a", "_">>

\* C10: a run sends at most one login request and at most one index-list
\* request; a failed login leaves no token and a failed fetch no result, and
\* either ends the run with status 1 with nothing further sent.
C10_NoRetry ==
    /\ loginRequests <= 1 /\ fetchRequests <= 1
    /\ LoginFailed =>
         /\ loginRequests = 1 /\ fetchRequests = 0
         /\ token = None /\ pc = "done" /\ exitCode = 1
    /\ FetchFailed =>
         /\ loginRequests = 1 /\ fetchRequests = 1
         /\ ~hasIndices /\ pc = "done" /\ exitCode = 1

C10_Witness == pc = "done" /\ fetchOutcome = "url_error" /\ fetchRequests = 1

FilesTouched == csvFile # csvStart \/ jsonFile # jsonStart

\* C11: the output files differ from what they were when the run started only
\* in a run whose credentials check, login and fetch all succeeded; a run that
\* ended at a credential, login or fetch failure left both files as they were.
C11_FilesOnlyAfterFetch ==
    /\ FilesTouched => credsOk /\ loginOutcome = "ok" /\ FetchOk
    /\ (pc = "done" /\ (~credsOk \/ LoginFailed \/ FetchFailed
                          \/ fetchOutcome = "not_logged_in"))
         => csvFile = csvStart /\ jsonFile = jsonStart

C11_Witness ==
    /\ pc = "done" /\ FetchFailed /\ ~interrupted
    /\ runs = 2 /\ csvStart.exists /\ csvStart # OldCsv /\ csvFile = csvStart

\* the pairs a single source can hand over
SourcePairs == {CfgSupplied, EnvSupplied, PromptSupplied}

\* C12: the api_key and secret_key of a login payload come from one source:
\* the pair is the config file's pair, the environment's pair or the pair typed
\* at the prompt, never an api_key of one with a secret_key of another.
C12_KeysFromOneSource ==
    /\ loginRequests > 0 => loginKeys \in SourcePairs
    /\ credsOk => <<api_key, secret_key>> \in SourcePairs

\* the config file holds only a secret key and the environment supplies both
C12_Witness ==
    /\ loginRequests > 0
    /\ ~Truthy(CfgSupplied[1]) /\ Truthy(CfgSupplied[2])
    /\ loginKeys = EnvSupplied

\* the positions of the config file's lines with key k
LinesWithKey(k) ==
    {i \in 1..Len(configFile.lines) :
        ~configFile.lines[i].comment /\ configFile.lines[i].key = k}
Last(S) == CHOOSE i \in S : \A j \in S : j <= i
First(S) == CHOOSE i \in S : \A j \in S : i <= j

====
